---- MODULE Spec2Model ----
(***************************************************************************)
(* QRSpeedTest: the live benchmarking engine.                              *)
(*                                                                         *)
(* LiveBenchmarkController (src/qrspeedtest/live_benchmark.py) attributes  *)
(* detections of the decoders AVFOUNDATION, VISION and ZXING to the active *)
(* trial, latches the first and the confirmed detection timestamp of every *)
(* (trial, decoder) pair and debounces confirmations over a sliding        *)
(* history.  StructuredLogger (src/qrspeedtest/logger.py) is the           *)
(* append-only event log.                                                  *)
(*                                                                         *)
(* Time is counted in ticks, one tick per confirmation window; all         *)
(* perf_counter_ns values are non-negative tick counts.  The trial timeout *)
(* is taken as two windows (the default configuration makes it six): every *)
(* relation the code tests occurs - before t0, at t0, inside, at the       *)
(* timeout, past it; inside the window and older than it.                  *)
(***************************************************************************)
EXTENDS Integers, Sequences, FiniteSets, TLC

\* ------------------------------------------------------------------ bounds

\* The event log holds at most MaxEvents rows.
MaxEvents == 4

\* Values of LiveBenchmarkConfig.confirmations_required (the default is 2).
ConfirmationsRequired == {1, 2}

\* Trial ids handed to start_trial / end_trial.
TrialIds == {1, 2}

\* perf_counter_ns values handed to start_trial as t0_ns and read by end_trial.
T0s == {1}

\* Payload strings a decoder may report (never empty: the callers filter those).
Payloads == {"A", "B"}

\* ------------------------------------------------------------ configuration

\* int(config.timeout_s * 1e9), in ticks.
TimeoutNs == 2

\* int(config.confirmation_window_ms * 1e6), in ticks.
WindowNs == 1

\* Timestamps a detection may carry: from one tick before t0 to one tick past
\* the timeout.
Timestamps == 0 .. (1 + TimeoutNs + 1)

DECODERS == <<"AVFOUNDATION", "VISION", "ZXING">>

DecoderIds == {DECODERS[i] : i \in 1..Len(DECODERS)}

\* Python's None for an int | None field (all timestamps are >= 0).
None == -1

\* Python's None for EventRow.payload_string and EventRow.trial_id.
NoPayload == ""

VARIABLES
    confirmations_required, \* config.confirmations_required
    trials,                 \* self._trials: trial_id -> TrialRecord
    active,                 \* self._active_trial_id
    events                  \* StructuredLogger._events

\* The controller and the log.
vars == <<confirmations_required, trials, active, events>>

VARIABLES
    throttle_n_frames,      \* SharedCameraSession.throttle_n_frames
    parallel_decode,        \* SharedCameraSession.parallel_decode
    camera,                 \* MainWindowController.camera: "absent", "live", "released"
    session_running,        \* the capture session runs (startRunning / stopRunning)
    frame_index,            \* SharedCameraSession._frame_index
    metrics,                \* SharedCameraSession.metrics
    pending,                \* the executor's work queue: submitted, not started
    running,                \* the work items the pool's workers execute
    executor_shutdown,      \* the executor was shut down
    dropped_frames,         \* SharedCameraSession.dropped_frames
    releases                \* calls of stopRunning and of executor.shutdown

\* The camera pipeline.
camVars == <<throttle_n_frames, parallel_decode, camera, session_running,
             frame_index, metrics, pending, running, executor_shutdown,
             dropped_frames, releases>>

VARIABLES
    rows,                   \* the list trials_summary_rows returned last
    summary,                \* MainWindowController.last_live_summary
    live_text,              \* what the live text view shows: "empty" or "summary"
    samples,                \* a list of values handed to compute_stats_ms
    stats                   \* the record compute_stats_ms returned for it last

\* The results of the statistics calls.
sumVars == <<rows, summary, live_text, samples, stats>>

VARIABLES
    lock,                   \* LiveBenchmarkController._lock: the thread that holds it
    calls,                  \* the on_detection call each detection thread is in
    starter,                \* the start_trial call the stimulus thread is in
    reader,                 \* the trials_summary_rows call the reading thread is in
    current                 \* what current_trial_id returned last

\* The threads that call the controller.
thrVars == <<lock, calls, starter, reader, current>>

allVars == <<vars, camVars, sumVars, thrVars>>

\* ------------------------------------------------------------- data types

\* TrialDecoderState()
NewDecoderState == [first_detect_ns |-> None, confirm_detect_ns |-> None, history |-> <<>>]

\* TrialRecord(trial_id, t0_ns, timeout_ns); per_decoder is created empty.
NewTrialRecord(trial_id, t0_ns, timeout_ns) ==
    [trial_id |-> trial_id, t0_ns |-> t0_ns, timeout_ns |-> timeout_ns,
     per_decoder |-> [d \in {} |-> NewDecoderState]]

\* EventRow(timestamp_ns, mode="live", trial_id, decoder, event_type,
\* payload_string); frame_index keeps its default None.
EventRow(timestamp_ns, trial_id, decoder, event_type, payload_string) ==
    [timestamp_ns |-> timestamp_ns, trial_id |-> trial_id, decoder |-> decoder,
     event_type |-> event_type, frame_index |-> None,
     payload_string |-> payload_string]

\* EventRow(timestamp_ns, mode="live", trial_id=None, decoder, event_type,
\* frame_index, payload_string): the rows the camera pipeline logs.
FrameEventRow(timestamp_ns, decoder, event_type, frame_idx, payload_string) ==
    [timestamp_ns |-> timestamp_ns, trial_id |-> None, decoder |-> decoder,
     event_type |-> event_type, frame_index |-> frame_idx,
     payload_string |-> payload_string]

\* StructuredLogger.log: append one row.
Log(log, row) == Append(log, row)

\* -------------------------------------------------- LiveBenchmarkController

\* Mutant of InTrialBounds: the timeout bound is exclusive.
InTrialBoundsExclusive(trial, ts_ns) ==
    ~(ts_ns < trial.t0_ns \/ ts_ns >= trial.timeout_ns)

\* on_detection, line 60: the detection lies inside [t0_ns, timeout_ns].
InTrialBounds(trial, ts_ns) ==
    ~(ts_ns < trial.t0_ns \/ ts_ns > trial.timeout_ns)

\* Mutant of StateOf: the state the defaultdict creates shares the history
\* deque of a decoder that is already present.
StateOfSharedHistory(trial, decoder) ==
    IF decoder \in DOMAIN trial.per_decoder
    THEN trial.per_decoder[decoder]
    ELSE IF DOMAIN trial.per_decoder = {}
         THEN NewDecoderState
         ELSE LET other == CHOOSE d \in DOMAIN trial.per_decoder : TRUE
              IN  [NewDecoderState EXCEPT !.history = trial.per_decoder[other].history]

\* trial.per_decoder[decoder]: the defaultdict creates the state when absent.
StateOf(trial, decoder) ==
    IF decoder \in DOMAIN trial.per_decoder
    THEN trial.per_decoder[decoder]
    ELSE NewDecoderState

\* Mutant of FirstDetect: every accepted detection overwrites first_detect_ns.
FirstDetectOverwrites(state, ts_ns) ==
    ts_ns

\* on_detection, lines 63-64: first_detect_ns is set only while it is None.
FirstDetect(state, ts_ns) ==
    IF state.first_detect_ns = None THEN ts_ns ELSE state.first_detect_ns

\* on_detection, lines 68-69: pop from the left while the head is older than
\* the window relative to ts_ns.  A history entry is <<payload, ts>>.
RECURSIVE Evict(_, _)
Evict(history, ts_ns) ==
    IF history # <<>> /\ ts_ns - history[1][2] > WindowNs
    THEN Evict(Tail(history), ts_ns)
    ELSE history

\* on_detection, line 70: the number of history entries with this payload.
MatchCount(history, payload) ==
    Cardinality({i \in 1..Len(history) : history[i][1] = payload})

\* Mutant of SingleShotFallback: the passive decoder has no fallback and
\* confirms by count alone.
SingleShotFallbackNever(decoder, count) == FALSE

\* Mutant of SingleShotFallback: the branch is taken for every decoder.
SingleShotFallbackAnyDecoder(decoder, count) ==
    /\ confirmations_required > 1
    /\ count < confirmations_required

\* on_detection, line 72: the single-shot branch of the confirmation.
SingleShotFallback(decoder, count) ==
    /\ decoder = "AVFOUNDATION"
    /\ confirmations_required > 1
    /\ count < confirmations_required

\* Mutant of ConfirmDetect: the guard "confirm_detect_ns is None" is missing.
ConfirmDetectUnlatched(state, decoder, ts_ns, count) ==
    IF SingleShotFallback(decoder, count)
    THEN state.first_detect_ns
    ELSE IF count >= confirmations_required
         THEN ts_ns
         ELSE state.confirm_detect_ns

\* on_detection, lines 71-75: the new confirm_detect_ns, given the state whose
\* first_detect_ns is already updated.
ConfirmDetect(state, decoder, ts_ns, count) ==
    IF state.confirm_detect_ns = None
    THEN IF SingleShotFallback(decoder, count)
         THEN state.first_detect_ns
         ELSE IF count >= confirmations_required
              THEN ts_ns
              ELSE state.confirm_detect_ns
    ELSE state.confirm_detect_ns

\* on_detection, lines 62-75: the per-decoder state after an accepted detection.
Detect(state, decoder, ts_ns, payload) ==
    LET first   == FirstDetect(state, ts_ns)
        history == Evict(Append(state.history, <<payload, ts_ns>>), ts_ns)
        count   == MatchCount(history, payload)
        latched == [state EXCEPT !.first_detect_ns = first]
    IN  [first_detect_ns   |-> first,
         confirm_detect_ns |-> ConfirmDetect(latched, decoder, ts_ns, count),
         history           |-> history]

\* The trial record with one decoder's state replaced (created when absent).
WithDecoderState(trial, decoder, state) ==
    [trial EXCEPT !.per_decoder =
        [d \in (DOMAIN trial.per_decoder) \cup {decoder} |->
            IF d = decoder THEN state ELSE trial.per_decoder[d]]]

\* Mutant of PutTrial: the map is rebuilt with the new trial alone.
PutTrialAlone(map, trial_id, record) ==
    [i \in {trial_id} |-> record]

\* start_trial, line 42: self._trials[trial_id] = TrialRecord(...)
PutTrial(map, trial_id, record) ==
    [i \in (DOMAIN map) \cup {trial_id} |-> IF i = trial_id THEN record ELSE map[i]]

\* LiveBenchmarkController.__init__ and StructuredLogger.__init__
ControllerInit ==
    /\ trials = [i \in {} |-> NewTrialRecord(i, 0, 0)]
    /\ active = None
    /\ events = <<>>

\* start_trial(trial_id, t0_ns)
StartTrial(trial_id, t0_ns) ==
    /\ LET timeout_ns == t0_ns + TimeoutNs
       IN  trials' = PutTrial(trials, trial_id, NewTrialRecord(trial_id, t0_ns, timeout_ns))
    /\ active' = trial_id
    /\ events' = Log(events, EventRow(t0_ns, trial_id, "SYSTEM", "TRIAL_START", NoPayload))
    /\ UNCHANGED confirmations_required

\* Mutant of EndTrial: ending the active trial also clears the active id.
EndTrialClearsActive(trial_id, ts_ns) ==
    /\ events' = Log(events, EventRow(ts_ns, trial_id, "SYSTEM", "TRIAL_END", NoPayload))
    /\ active' = IF active = trial_id THEN None ELSE active
    /\ UNCHANGED <<confirmations_required, trials>>

\* end_trial(trial_id); ts_ns is the perf_counter_ns() it reads.
EndTrial(trial_id, ts_ns) ==
    /\ events' = Log(events, EventRow(ts_ns, trial_id, "SYSTEM", "TRIAL_END", NoPayload))
    /\ UNCHANGED <<confirmations_required, trials, active>>

\* on_detection(decoder, ts_ns, payload), lines 56-61: the early returns.
Ignored(ts_ns) ==
    \/ active = None
    \/ active \notin DOMAIN trials
    \/ ~InTrialBounds(trials[active], ts_ns)

\* Mutant of OnDetection: the early returns fall through to the logger call.
OnDetectionLogsIgnored(decoder, ts_ns, payload) ==
    /\ events' = Log(events, EventRow(ts_ns, active, decoder, "PAYLOAD_DETECTED", payload))
    /\ IF Ignored(ts_ns)
       THEN UNCHANGED <<confirmations_required, trials, active>>
       ELSE /\ LET trial == trials[active]
                   state == Detect(StateOf(trial, decoder), decoder, ts_ns, payload)
               IN  trials' = [trials EXCEPT ![active] = WithDecoderState(trial, decoder, state)]
            /\ UNCHANGED <<confirmations_required, active>>

\* on_detection(decoder, ts_ns, payload).  The early returns leave the
\* controller and the log as they are.
OnDetection(decoder, ts_ns, payload) ==
    IF Ignored(ts_ns)
    THEN UNCHANGED vars
    ELSE /\ LET trial == trials[active]
                state == Detect(StateOf(trial, decoder), decoder, ts_ns, payload)
            IN  trials' = [trials EXCEPT ![active] = WithDecoderState(trial, decoder, state)]
         /\ events' = Log(events, EventRow(ts_ns, active, decoder, "PAYLOAD_DETECTED", payload))
         /\ UNCHANGED <<confirmations_required, active>>

\* The latest timestamp the passive detector has delivered into the log.
PassiveClock ==
    LET seen == {events[k].timestamp_ns : k \in {n \in 1..Len(events) :
                    /\ events[n].event_type = "PAYLOAD_DETECTED"
                    /\ events[n].decoder = "AVFOUNDATION"}}
    IN  IF seen = {} THEN 0 ELSE CHOOSE m \in seen : \A t \in seen : t <= m

\* The order in which the callers deliver detections.  The metadata delegate
\* runs on the serial queue "qrspeed.metadata" and stamps each callback on
\* entry, so AVFOUNDATION detections arrive in timestamp order.  A decode
\* worker stamps its result before it delivers it and the pool runs four
\* workers, so VISION and ZXING detections arrive in any order.
Deliverable(decoder, ts_ns) ==
    decoder = "AVFOUNDATION" => ts_ns >= PassiveClock

\* ------------------------------------------------------- rest of the program
\* SharedCameraSession does not exist before startCamera_ (app.py:
\* self.camera = None); nothing has been summarised.
NoCamera ==
    /\ camera = "absent"
    /\ session_running = FALSE
    /\ frame_index = 0
    /\ metrics = [frames_received |-> 0, frames_processed |-> 0, dropped_frames |-> 0]
    /\ dropped_frames = 0
    /\ pending = <<>>
    /\ running = {}
    /\ executor_shutdown = FALSE
    /\ releases = [source |-> 0, pool |-> 0]

NotCalled == <<>>

\* The threads that deliver detections: the passive detector's queue and
\* a worker of the decode pool.
DetectionThreads == {"metadata", "worker"}

\* threading.Lock() as created: no thread holds it.
Unlocked == "unlocked"

\* A thread that is in no call of the controller.
NoCall ==
    [pc |-> "idle", decoder |-> "", ts_ns |-> None, payload |-> NoPayload,
     trial_id |-> None, entry |-> <<>>]

NoStart == [pc |-> "idle", trial_id |-> None, t0_ns |-> None]

NoRead ==
    [pc |-> "idle", items |-> <<>>, trial |-> 0, decoder |-> 0, held |-> "none",
     first_ms |-> None, confirm_ms |-> None, out |-> <<>>]

\* LiveBenchmarkController.__init__: the lock is free; no thread has called.
NoThreads ==
    /\ lock = Unlocked
    /\ calls = [thread \in DetectionThreads |-> NoCall]
    /\ starter = NoStart
    /\ reader = NoRead
    /\ current = None

\* No record of compute_stats_ms yet.
NoStats == [count |-> None]

NoReport ==
    /\ rows = NotCalled
    /\ summary = NotCalled
    /\ live_text = "empty"
    /\ samples = <<>>
    /\ stats = NoStats

\* ------------------------------------------------------ the controller alone
\* The controller under the calls the app makes of it, with the camera never
\* opened: the configuration of the pipeline is LiveBenchmarkConfig's default.
Init ==
    /\ confirmations_required \in ConfirmationsRequired
    /\ ControllerInit
    /\ throttle_n_frames = 1
    /\ parallel_decode = TRUE
    /\ NoCamera
    /\ NoReport
    /\ NoThreads

\* The log has room for one more row.
Room == Len(events) < MaxEvents

\* _on_stimulus_trial (app.py): the stimulus window starts a trial.
StimulusTrial(trial_id, t0_ns) ==
    /\ Room
    /\ StartTrial(trial_id, t0_ns)
    /\ UNCHANGED <<camVars, sumVars, thrVars>>

\* run_scripted_trials: end_trial after the trial's sleep.
ScriptedEnd(trial_id, ts_ns) ==
    /\ Room
    /\ EndTrial(trial_id, ts_ns)
    /\ UNCHANGED <<camVars, sumVars, thrVars>>

\* _decoder_event (app.py): a detection callback reaches on_detection.
DecoderEvent(decoder, ts_ns, payload) ==
    /\ Room
    /\ Deliverable(decoder, ts_ns)
    /\ OnDetection(decoder, ts_ns, payload)
    /\ UNCHANGED <<camVars, sumVars, thrVars>>

Next ==
    \/ \E trial_id \in TrialIds, t0_ns \in T0s : StimulusTrial(trial_id, t0_ns)
    \/ \E trial_id \in TrialIds, ts_ns \in T0s : ScriptedEnd(trial_id, ts_ns)
    \/ \E decoder \in DecoderIds, ts_ns \in Timestamps, payload \in Payloads :
          DecoderEvent(decoder, ts_ns, payload)

Spec == Init /\ [][Next]_allVars

\* ------------------------------------------------------- the camera pipeline
\* The event log holds at most MaxCameraEvents rows while the pipeline runs.
MaxCameraEvents == 6

\* LiveBenchmarkConfig.throttle_n_frames, as the user may set it.
ThrottleConfigs == {0, 1, 2}

\* The drop signals one session receives.
MaxDrops == 1

\* The payloads a frame decodes to.
FramePayloads == {"A"}

\* The readings of perf_counter_ns in the pipeline that only the log keeps:
\* ts_ns of on_video_sample and start_ns of run_decode.
CameraClock == T0s

\* The readings of perf_counter_ns after a decode, end_ns of run_decode, which
\* the detection callback hands on.
DecodeClock == {1, 2}

\* ThreadPoolExecutor(max_workers=4)
PoolWorkers == 4

\* queue.Queue(maxsize=2): the decode queue __init__ creates.
DecodeQueueMaxSize == 2

\* The log has room for one more row of the pipeline.
CameraRoom == Len(events) < MaxCameraEvents

\* SharedCameraSession.__init__: self.throttle_n_frames = max(1, throttle_n_frames)
ThrottleOf(configured) == IF configured < 1 THEN 1 ELSE configured

\* Mutant of NextFrameIndex: the frame is numbered before the increment is
\* stored, and the increment is lost.
NextFrameIndexStale(index) == index

\* self._frame_index += 1; frame_idx = self._frame_index
NextFrameIndex(index) == index + 1

\* Mutant of Sampled: the throttle test is inverted.
SampledInverted(frame_idx) == frame_idx % throttle_n_frames # 0

\* on_video_sample: the frame passes `if frame_idx % throttle_n_frames != 0: return`.
Sampled(frame_idx) == ~(frame_idx % throttle_n_frames # 0)

\* One submit to the executor: the decoders it runs, in order, for one frame.
WorkItem(frame_idx, decoders) == [frame_idx |-> frame_idx, decoders |-> decoders]

\* on_video_sample, the dispatch: two submits when parallel_decode, else one
\* submit of the lambda that runs VISION and then ZXING.
Submission(frame_idx) ==
    IF parallel_decode
    THEN <<WorkItem(frame_idx, <<"VISION">>), WorkItem(frame_idx, <<"ZXING">>)>>
    ELSE <<WorkItem(frame_idx, <<"VISION", "ZXING">>)>>

\* A work item in a worker: pc is "begin" before run_decode of its first
\* remaining decoder, "decoding" inside decode_cgimage, "count" between the
\* load and the store of `self.metrics.frames_processed += 1`, "callback"
\* before decoder_callback. payload is result.payload, end_ns the reading of
\* the clock after the decode, loaded the counter value the worker read.
Task(item, pc, payload) ==
    [frame_idx |-> item.frame_idx, decoders |-> item.decoders, pc |-> pc,
     payload |-> payload, end_ns |-> None, loaded |-> None]

\* Mutant of HasPayload: the callback is made for every result.
HasPayloadAlways(payload) == TRUE

\* run_decode: `if result.payload:` -- None and the empty string are false.
HasPayload(payload) == payload # NoPayload

\* The work item after run_decode of its first remaining decoder returned:
\* the lambda goes on to the next decoder, or the work item is done.
AfterReturn(task) ==
    IF Len(task.decoders) > 1
    THEN (running \ {task}) \cup
         {Task(WorkItem(task.frame_idx, Tail(task.decoders)), "begin", NoPayload)}
    ELSE running \ {task}

\* startCamera_: _ensure_camera creates the session when there is none, then
\* camera.start(). The model follows one session: none is created after
\* stopCamera_ released it.
StartCamera ==
    /\ camera \in {"absent", "live"}
    /\ camera' = "live"
    /\ session_running' = TRUE
    /\ UNCHANGED <<throttle_n_frames, parallel_decode, frame_index, metrics,
                   pending, running, executor_shutdown, dropped_frames, releases>>
    /\ UNCHANGED <<vars, sumVars, thrVars>>

\* Mutant of StopCamera: stopCamera_ keeps self.camera.
StopCameraKeepsSession ==
    /\ IF camera = "live"
       THEN /\ session_running' = FALSE
            /\ pending' = <<>>
            /\ executor_shutdown' = TRUE
            /\ releases' = [source |-> releases.source + 1, pool |-> releases.pool + 1]
            /\ UNCHANGED camera
       ELSE UNCHANGED <<camera, session_running, pending, executor_shutdown, releases>>
    /\ UNCHANGED <<throttle_n_frames, parallel_decode, frame_index, metrics, running,
                   dropped_frames>>
    /\ UNCHANGED <<vars, sumVars, thrVars>>

\* stopCamera_: `if self.camera:` camera.stop() -- stopRunning and
\* executor.shutdown(wait=False, cancel_futures=True) -- and self.camera = None.
StopCamera ==
    /\ IF camera = "live"
       THEN /\ session_running' = FALSE
            /\ pending' = <<>>
            /\ executor_shutdown' = TRUE
            /\ releases' = [source |-> releases.source + 1, pool |-> releases.pool + 1]
            /\ camera' = "released"
       ELSE UNCHANGED <<camera, session_running, pending, executor_shutdown, releases>>
    /\ UNCHANGED <<throttle_n_frames, parallel_decode, frame_index, metrics, running,
                   dropped_frames>>
    /\ UNCHANGED <<vars, sumVars, thrVars>>

\* on_video_sample: the video queue delivers one frame.
VideoSample(ts_ns) ==
    /\ session_running
    /\ CameraRoom
    /\ LET frame_idx == NextFrameIndex(frame_index)
       IN  /\ metrics' = [metrics EXCEPT !.frames_received = @ + 1]
           /\ frame_index' = frame_idx
           /\ events' = Log(events, FrameEventRow(ts_ns, "PIPELINE", "FRAME_RECEIVED",
                                                  frame_idx, NoPayload))
           /\ pending' = IF Sampled(frame_idx)
                         THEN pending \o Submission(frame_idx)
                         ELSE pending
    /\ UNCHANGED <<throttle_n_frames, parallel_decode, camera, session_running,
                   running, executor_shutdown, dropped_frames, releases>>
    /\ UNCHANGED <<confirmations_required, trials, active, sumVars, thrVars>>

\* captureOutput_didDropSampleBuffer_fromConnection_: the video queue
\* reports a frame the source dropped.
DropSample ==
    /\ session_running
    /\ dropped_frames < MaxDrops
    /\ dropped_frames' = dropped_frames + 1
    /\ UNCHANGED <<throttle_n_frames, parallel_decode, camera, session_running,
                   frame_index, metrics, pending, running, executor_shutdown, releases>>
    /\ UNCHANGED <<vars, sumVars, thrVars>>

\* What a worker leaves alone.
WorkerFrame ==
    /\ UNCHANGED <<throttle_n_frames, parallel_decode, camera, session_running,
                   frame_index, executor_shutdown, dropped_frames, releases>>
    /\ UNCHANGED <<sumVars, thrVars>>

\* A free worker of the pool takes the oldest submitted work item; run_decode
\* of its first decoder logs DECODE_START and enters decode_cgimage.
WorkerStart(start_ns) ==
    /\ pending # <<>>
    /\ Cardinality(running) < PoolWorkers
    /\ CameraRoom
    /\ LET item == Head(pending)
       IN  /\ pending' = Tail(pending)
           /\ running' = running \cup {Task(item, "decoding", NoPayload)}
           /\ events' = Log(events, FrameEventRow(start_ns, Head(item.decoders),
                                                  "DECODE_START", item.frame_idx, NoPayload))
    /\ UNCHANGED <<confirmations_required, trials, active, metrics>>
    /\ WorkerFrame

\* The serial lambda enters run_decode of its second decoder.
SerialNext(task, start_ns) ==
    /\ task \in running
    /\ task.pc = "begin"
    /\ CameraRoom
    /\ running' = (running \ {task}) \cup {[task EXCEPT !.pc = "decoding"]}
    /\ events' = Log(events, FrameEventRow(start_ns, Head(task.decoders),
                                           "DECODE_START", task.frame_idx, NoPayload))
    /\ UNCHANGED <<confirmations_required, trials, active, metrics, pending>>
    /\ WorkerFrame

\* decode_cgimage returns a DecodeResult, with a payload or without one:
\* run_decode reads the clock, logs DECODE_END and loads
\* metrics.frames_processed for the increment.
DecodeEnd(task, end_ns, payload) ==
    /\ task \in running
    /\ task.pc = "decoding"
    /\ CameraRoom
    /\ events' = Log(events, FrameEventRow(end_ns, Head(task.decoders),
                                           "DECODE_END", task.frame_idx, payload))
    /\ running' = (running \ {task}) \cup
                   {[task EXCEPT !.pc = "count", !.payload = payload, !.end_ns = end_ns,
                                 !.loaded = metrics.frames_processed]}
    /\ UNCHANGED <<confirmations_required, trials, active, metrics, pending>>
    /\ WorkerFrame

\* run_decode: the store of `self.metrics.frames_processed += 1`, which no
\* lock guards, and the test of result.payload.
CountProcessed(task) ==
    /\ task \in running
    /\ task.pc = "count"
    /\ metrics' = [metrics EXCEPT !.frames_processed = task.loaded + 1]
    /\ running' = IF HasPayload(task.payload)
                  THEN (running \ {task}) \cup {[task EXCEPT !.pc = "callback"]}
                  ELSE AfterReturn(task)
    /\ UNCHANGED <<vars, pending>>
    /\ WorkerFrame

\* VisionDecoder.decode_cgimage raises RuntimeError("Vision error: ..."):
\* run_decode has no handler, the exception ends the work item and stays in
\* its future.
DecodeRaises(task) ==
    /\ task \in running
    /\ task.pc = "decoding"
    /\ Head(task.decoders) = "VISION"
    /\ running' = running \ {task}
    /\ UNCHANGED <<vars, metrics, pending>>
    /\ WorkerFrame

\* _decoder_event(decoder, ts_ns, payload, frame_index, conversion_ms,
\* decode_ms) (app.py): on_detection(decoder, ts_ns, payload).
DecoderCallback(decoder, ts_ns, payload, frame_idx) ==
    OnDetection(decoder, ts_ns, payload)

\* run_decode: decoder_callback(name, end_ns, result.payload, frame_idx, ...)
DecodeCallback(task) ==
    /\ task \in running
    /\ task.pc = "callback"
    /\ CameraRoom
    /\ DecoderCallback(Head(task.decoders), task.end_ns, task.payload, task.frame_idx)
    /\ running' = AfterReturn(task)
    /\ UNCHANGED <<metrics, pending>>
    /\ WorkerFrame

\* _on_stimulus_trial (app.py) while the pipeline runs.
CameraTrial(trial_id, t0_ns) ==
    /\ CameraRoom
    /\ StartTrial(trial_id, t0_ns)
    /\ UNCHANGED <<camVars, sumVars, thrVars>>

\* The app after init, with any pipeline configuration the user can set.
CameraInit ==
    /\ confirmations_required = 2
    /\ ControllerInit
    /\ throttle_n_frames \in {ThrottleOf(c) : c \in ThrottleConfigs}
    /\ parallel_decode \in BOOLEAN
    /\ NoCamera
    /\ NoReport
    /\ NoThreads

CameraNext ==
    \/ \E t0_ns \in T0s : CameraTrial(1, t0_ns)
    \/ StartCamera
    \/ StopCamera
    \/ \E ts_ns \in CameraClock : VideoSample(ts_ns)
    \/ \E start_ns \in CameraClock : WorkerStart(start_ns)
    \/ \E task \in running, start_ns \in CameraClock : SerialNext(task, start_ns)
    \/ \E task \in running, end_ns \in DecodeClock, payload \in FramePayloads \cup {NoPayload} :
          DecodeEnd(task, end_ns, payload)
    \/ \E task \in running : DecodeRaises(task)
    \/ \E task \in running : CountProcessed(task)
    \/ \E task \in running : DecodeCallback(task)
    \/ DropSample

SpecCamera == CameraInit /\ [][CameraNext]_allVars

\* ------------------------------------------------------------ the statistics
\* One tick of the model's clock is the confirmation window, 500 ms: the
\* `/ 1e6` of trials_summary_rows turns a difference of ticks into so many ms.
MsPerTick == 500

\* The event log holds at most MaxSummaryEvents rows in a run that is
\* summarised.
MaxSummaryEvents == 3

SummaryRoom == Len(events) < MaxSummaryEvents

\* The t0_ns values of the summarised trials: the clock's origin and one tick
\* after it.
SummaryT0s == {0, 1}

\* The payload the summarised trials show.
SummaryPayloads == {"A"}

\* A float that is the quotient of two integers.
Ratio(num, den) == [num |-> num, den |-> den]

\* Python's truth value of an int | None field: None and 0 are false.
Truthy(value) == value # None /\ value # 0

\* ((detect_ns - trial.t0_ns) / 1e6) if detect_ns else None
LatencyMs(detect_ns, t0_ns) ==
    IF Truthy(detect_ns) THEN (detect_ns - t0_ns) * MsPerTick ELSE None

\* The row trials_summary_rows appends for one trial and one decoder;
\* per_decoder.get(decoder, TrialDecoderState()) is the state, or a fresh one.
SummaryRow(trial_id, trial, decoder) ==
    LET state == StateOf(trial, decoder)
    IN  [trial_id |-> trial_id,
         decoder |-> decoder,
         success |-> Truthy(state.first_detect_ns),
         first_detect_latency_ms |-> LatencyMs(state.first_detect_ns, trial.t0_ns),
         confirm_detect_latency_ms |-> LatencyMs(state.confirm_detect_ns, trial.t0_ns)]

\* sorted(self._trials.items()): the trial ids in ascending order.
RECURSIVE SortedIds(_)
SortedIds(ids) ==
    IF ids = {} THEN <<>>
    ELSE LET least == CHOOSE i \in ids : \A j \in ids : i <= j
         IN  <<least>> \o SortedIds(ids \ {least})

\* The rows of the trials of a sequence of ids: `for decoder in DECODERS`
\* inside `for trial_id, trial in sorted(...)`.
RECURSIVE RowsFor(_, _)
RowsFor(map, ids) ==
    IF ids = <<>> THEN <<>>
    ELSE [k \in 1..Len(DECODERS) |-> SummaryRow(Head(ids), map[Head(ids)], DECODERS[k])]
         \o RowsFor(map, Tail(ids))

\* LiveBenchmarkController.trials_summary_rows
TrialsSummaryRows(map) == RowsFor(map, SortedIds(DOMAIN map))

RECURSIVE SumSeq(_)
SumSeq(values) == IF values = <<>> THEN 0 ELSE Head(values) + SumSeq(Tail(values))

\* sorted(values)
RECURSIVE SortedSeq(_)
SortedSeq(values) ==
    IF values = <<>> THEN <<>>
    ELSE LET k == CHOOSE i \in 1..Len(values) : \A j \in 1..Len(values) : values[i] <= values[j]
         IN  <<values[k]>> \o SortedSeq(SubSeq(values, 1, k - 1) \o
                                        SubSeq(values, k + 1, Len(values)))

\* statistics.fmean
Mean(values) == Ratio(SumSeq(values), Len(values))

\* statistics.median: the middle value, or the mean of the two middle values.
Median(values) ==
    LET sorted == SortedSeq(values)
        n == Len(values)
    IN  IF n % 2 = 1
        THEN Ratio(sorted[(n + 1) \div 2], 1)
        ELSE Ratio(sorted[n \div 2] + sorted[n \div 2 + 1], 2)

\* Mutant of Percentile: the values are not sorted before the rank is taken.
PercentileUnsorted(values, p) ==
    IF values = <<>> THEN None
    ELSE IF Len(values) = 1 THEN Ratio(values[1], 1)
    ELSE LET low == ((Len(values) - 1) * p.num) \div p.den
             frac == ((Len(values) - 1) * p.num) % p.den
         IN  IF frac = 0
             THEN Ratio(values[low + 1], 1)
             ELSE Ratio(values[low + 1] * (p.den - frac) + values[low + 2] * frac, p.den)

\* _percentile(values, p), p being the quotient p.num / p.den: rank is
\* (len - 1) * p, low and high its floor and ceiling, frac = rank - low, and
\* the result sorted_vals[low] * (1 - frac) + sorted_vals[high] * frac, as
\* exact quotients (the rounding of the floats is not modelled).
Percentile(values, p) ==
    IF values = <<>> THEN None
    ELSE IF Len(values) = 1 THEN Ratio(values[1], 1)
    ELSE LET sorted_vals == SortedSeq(values)
             low == ((Len(values) - 1) * p.num) \div p.den
             frac == ((Len(values) - 1) * p.num) % p.den
         IN  IF frac = 0
             THEN Ratio(sorted_vals[low + 1], 1)
             ELSE Ratio(sorted_vals[low + 1] * (p.den - frac) + sorted_vals[low + 2] * frac,
                        p.den)

\* The square of statistics.stdev, the sample variance
\* (n * sum(x^2) - sum(x)^2) / (n * (n - 1)).
RECURSIVE SumSquares(_)
SumSquares(values) ==
    IF values = <<>> THEN 0 ELSE Head(values) * Head(values) + SumSquares(Tail(values))

Variance(values) ==
    Ratio(Len(values) * SumSquares(values) - SumSeq(values) * SumSeq(values),
          Len(values) * (Len(values) - 1))

\* std = statistics.stdev(vals) if len(vals) > 1 else 0.0, held as the
\* quotient it is the square root of.
StdMs(values) ==
    [sqrt_of |-> IF Len(values) > 1 THEN Variance(values) ELSE Ratio(0, 1)]

\* cov = (std / mean) if mean > 0 else None
CoefficientOfVariation(values) ==
    IF SumSeq(values) > 0
    THEN [std |-> StdMs(values), mean |-> Mean(values)]
    ELSE None

\* Mutant of ComputeStatsMs: the record of the empty list has a null count too.
ComputeStatsMsNullCount(values) ==
    IF values = <<>>
    THEN [count |-> None, mean_ms |-> None, std_ms |-> None, median_ms |-> None,
          p95_ms |-> None, min_ms |-> None, max_ms |-> None,
          coefficient_of_variation |-> None]
    ELSE [count |-> Len(values), mean_ms |-> Mean(values), std_ms |-> StdMs(values),
          median_ms |-> Median(values), p95_ms |-> Percentile(values, Ratio(95, 100)),
          min_ms |-> SortedSeq(values)[1], max_ms |-> SortedSeq(values)[Len(values)],
          coefficient_of_variation |-> CoefficientOfVariation(values)]

\* compute_stats_ms
ComputeStatsMs(values) ==
    IF values = <<>>
    THEN [count |-> 0, mean_ms |-> None, std_ms |-> None, median_ms |-> None,
          p95_ms |-> None, min_ms |-> None, max_ms |-> None,
          coefficient_of_variation |-> None]
    ELSE [count |-> Len(values), mean_ms |-> Mean(values), std_ms |-> StdMs(values),
          median_ms |-> Median(values), p95_ms |-> Percentile(values, Ratio(95, 100)),
          min_ms |-> SortedSeq(values)[1], max_ms |-> SortedSeq(values)[Len(values)],
          coefficient_of_variation |-> CoefficientOfVariation(values)]

\* success_rate(successes, total): (successes / total) if total else 0.0
SuccessRate(successes, total) ==
    IF total # 0 THEN Ratio(successes, total) ELSE Ratio(0, 1)

\* aggregate: by_decoder[decoder], the rows of one decoder in row order.
ByDecoder(summary_rows, decoder) ==
    SelectSeq(summary_rows, LAMBDA r : r.decoder = decoder)

\* aggregate: per_trial_fastest, the least first-detect latency of each trial
\* that has one.
PerTrialFastest(summary_rows) ==
    LET latencies(trial_id) ==
            {summary_rows[n].first_detect_latency_ms : n \in
                {m \in 1..Len(summary_rows) :
                    /\ summary_rows[m].trial_id = trial_id
                    /\ summary_rows[m].first_detect_latency_ms # None}}
        timed == {summary_rows[n].trial_id : n \in
                    {m \in 1..Len(summary_rows) :
                        summary_rows[m].first_detect_latency_ms # None}}
    IN  [trial_id \in timed |->
            CHOOSE v \in latencies(trial_id) : \A w \in latencies(trial_id) : v <= w]

\* aggregate: first_vals, the first-detect latencies of the rows that have one.
FirstVals(drows) ==
    LET timed == SelectSeq(drows, LAMBDA r : r.first_detect_latency_ms # None)
    IN  [k \in 1..Len(timed) |-> timed[k].first_detect_latency_ms]

\* aggregate: confirm_vals
ConfirmVals(drows) ==
    LET timed == SelectSeq(drows, LAMBDA r : r.confirm_detect_latency_ms # None)
    IN  [k \in 1..Len(timed) |-> timed[k].confirm_detect_latency_ms]

\* aggregate: deltas, one for each row of the decoder with a latency in a
\* trial that has a fastest latency.
Deltas(drows, fastest) ==
    LET timed == SelectSeq(drows, LAMBDA r :
                     /\ r.first_detect_latency_ms # None
                     /\ r.trial_id \in DOMAIN fastest)
    IN  [k \in 1..Len(timed) |->
            timed[k].first_detect_latency_ms - fastest[timed[k].trial_id]]

\* LiveBenchmarkController.aggregate, given the rows of trials_summary_rows:
\* one record for each decoder that has rows. deltas is the local list the
\* two figures of delta_vs_fastest are computed from.
Aggregate(summary_rows) ==
    LET fastest == PerTrialFastest(summary_rows)
        grouped == {summary_rows[n].decoder : n \in 1..Len(summary_rows)}
    IN  [decoder \in grouped |->
            LET drows == ByDecoder(summary_rows, decoder)
                deltas == Deltas(drows, fastest)
            IN  [success_rate |-> SuccessRate(Len(SelectSeq(drows, LAMBDA r : r.success)),
                                              Len(drows)),
                 first_detect |-> ComputeStatsMs(FirstVals(drows)),
                 confirm_detect |-> ComputeStatsMs(ConfirmVals(drows)),
                 deltas |-> deltas,
                 delta_vs_fastest |-> [mean_delta_ms |-> ComputeStatsMs(deltas).mean_ms,
                                       median_delta_ms |-> ComputeStatsMs(deltas).median_ms],
                 per_trial_latencies_ms |-> FirstVals(drows)]]

\* exportLogs_ (app.py): trials_rows = self.live_controller.trials_summary_rows()
ExportLogs ==
    /\ rows' = TrialsSummaryRows(trials)
    /\ UNCHANGED <<vars, camVars, thrVars, summary, live_text, samples, stats>>

\* runLiveBenchmark_ (app.py): summary = self.live_controller.aggregate();
\* self.last_live_summary = summary; the live text view shows it.
RunAggregate ==
    /\ summary' = Aggregate(TrialsSummaryRows(trials))
    /\ live_text' = "summary"
    /\ UNCHANGED <<vars, camVars, thrVars, rows, samples, stats>>

\* The controller summarised: trials are started at the clock's origin or one
\* tick after it, detections arrive, and the app summarises at any time.
SummaryInit ==
    /\ confirmations_required = 2
    /\ ControllerInit
    /\ throttle_n_frames = 1
    /\ parallel_decode = TRUE
    /\ NoCamera
    /\ NoReport
    /\ NoThreads

\* _on_stimulus_trial (app.py) in a run that is summarised.
SummaryTrial(trial_id, t0_ns) ==
    /\ SummaryRoom
    /\ StartTrial(trial_id, t0_ns)
    /\ UNCHANGED <<camVars, sumVars, thrVars>>

\* _decoder_event (app.py) in a run that is summarised.
SummaryDetection(decoder, ts_ns, payload) ==
    /\ SummaryRoom
    /\ Deliverable(decoder, ts_ns)
    /\ OnDetection(decoder, ts_ns, payload)
    /\ UNCHANGED <<camVars, sumVars, thrVars>>

SummaryNext ==
    \/ \E trial_id \in TrialIds, t0_ns \in SummaryT0s : SummaryTrial(trial_id, t0_ns)
    \/ \E decoder \in DecoderIds, ts_ns \in Timestamps, payload \in SummaryPayloads :
          SummaryDetection(decoder, ts_ns, payload)
    \/ ExportLogs
    \/ RunAggregate

SpecSummary == SummaryInit /\ [][SummaryNext]_allVars

\* --------------------------------------------------------- compute_stats_ms
\* The lists handed to compute_stats_ms have at most MaxSamples values.
MaxSamples == 4

\* The values of the lists, in ms.
SampleValues == {10, 20, 30, 40}

\* The lists of values compute_stats_ms is called with.
SampleLists == UNION {[1..n -> SampleValues] : n \in 0..MaxSamples}

\* A caller holds a list of values; nothing else of the app has run.
StatsInit ==
    /\ confirmations_required = 2
    /\ ControllerInit
    /\ throttle_n_frames = 1
    /\ parallel_decode = TRUE
    /\ NoCamera
    /\ rows = NotCalled
    /\ summary = NotCalled
    /\ live_text = "empty"
    /\ samples \in SampleLists
    /\ NoThreads
    /\ stats = NoStats

\* stats = compute_stats_ms(samples)
ComputeStats ==
    /\ stats' = ComputeStatsMs(samples)
    /\ UNCHANGED <<vars, camVars, thrVars, rows, summary, live_text, samples>>

StatsNext == ComputeStats

SpecStats == StatsInit /\ [][StatsNext]_allVars

\* ------------------------------------------------- the controller's threads
\* The controller under the calls of concurrent threads, a step at a time:
\* the stimulus thread in start_trial, the passive detector's queue and a
\* pool worker in on_detection, one thread that calls trials_summary_rows
\* once, and one in current_trial_id.  A step is what a thread does between two points at
\* which another thread can see or change the controller.

\* The log holds at most this many rows in the thread specification.
MaxThreadEvents == 3

\* The trials of one stimulus run: _run_next_trial numbers them upwards.
ThreadTrialIds == {1, 2}

\* perf_counter_ns() of a detection.
ThreadClock == {1, 2}

ThreadPayloads == {"A"}

\* The decoders a thread delivers: the metadata delegate delivers the
\* passive detector's, a pool worker a decode backend's.
DecodersOf(thread) ==
    IF thread = "metadata" THEN {"AVFOUNDATION"} ELSE {"VISION"}

\* The log has room for the rows of the calls under way and one more.
ThreadRoom ==
    Len(events)
        + Cardinality({thread \in DetectionThreads : calls[thread].pc # "idle"})
        + (IF starter.pc # "idle" THEN 1 ELSE 0) < MaxThreadEvents

\* Mutant of Acquirable: `with self._lock` never waits.
AcquirableAlways == TRUE

\* `with self._lock:` is entered when no thread holds the lock.
Acquirable == lock = Unlocked

\* start_trial, lines 40-43: the record is written and made active under the
\* lock.
StartTrialLocked(trial_id, t0_ns) ==
    /\ starter.pc = "idle"
    /\ Acquirable
    /\ trial_id \notin DOMAIN trials
    /\ ThreadRoom
    /\ LET timeout_ns == t0_ns + TimeoutNs
       IN  trials' = PutTrial(trials, trial_id, NewTrialRecord(trial_id, t0_ns, timeout_ns))
    /\ active' = trial_id
    /\ starter' = [pc |-> "log", trial_id |-> trial_id, t0_ns |-> t0_ns]
    /\ UNCHANGED <<confirmations_required, events, lock, calls, reader, current>>
    /\ UNCHANGED <<camVars, sumVars>>

\* start_trial, line 44: TRIAL_START is logged after the lock is released.
StartTrialLog ==
    /\ starter.pc = "log"
    /\ events' = Log(events, EventRow(starter.t0_ns, starter.trial_id, "SYSTEM",
                                      "TRIAL_START", NoPayload))
    /\ starter' = NoStart
    /\ UNCHANGED <<confirmations_required, trials, active, lock, calls, reader, current>>
    /\ UNCHANGED <<camVars, sumVars>>

\* current_trial_id: the active id is read under the lock.
CurrentTrialId ==
    /\ Acquirable
    /\ current' = active
    /\ UNCHANGED <<vars, lock, calls, starter, reader>>
    /\ UNCHANGED <<camVars, sumVars>>

\* The record of a trial with one field of one decoder's state replaced.
WithField(map, trial_id, decoder, state) ==
    [map EXCEPT ![trial_id] = WithDecoderState(map[trial_id], decoder, state)]

\* on_detection, lines 55-62: the lock is taken, the early returns are
\* tried, and trial.per_decoder[decoder] creates the state when it is absent.
\* An early return releases the lock and leaves everything as it was.
OnDetectionEnter(thread, decoder, ts_ns, payload) ==
    /\ calls[thread].pc = "idle"
    /\ Acquirable
    /\ ThreadRoom
    /\ IF Ignored(ts_ns)
       THEN UNCHANGED <<vars, lock, calls>>
       ELSE /\ lock' = thread
            /\ trials' = WithField(trials, active, decoder, StateOf(trials[active], decoder))
            /\ calls' = [calls EXCEPT ![thread] =
                            [pc |-> "latch", decoder |-> decoder, ts_ns |-> ts_ns,
                             payload |-> payload, trial_id |-> active, entry |-> trials]]
            /\ UNCHANGED <<confirmations_required, active, events>>
    /\ UNCHANGED <<starter, reader, current>>
    /\ UNCHANGED <<camVars, sumVars>>

\* on_detection, lines 63-64: first_detect_ns is latched.
OnDetectionLatch(thread) ==
    /\ calls[thread].pc = "latch"
    /\ LET call  == calls[thread]
           state == trials[call.trial_id].per_decoder[call.decoder]
       IN  trials' = WithField(trials, call.trial_id, call.decoder,
                        [state EXCEPT !.first_detect_ns = FirstDetect(state, call.ts_ns)])
    /\ calls' = [calls EXCEPT ![thread].pc = "confirm"]
    /\ UNCHANGED <<confirmations_required, active, events, lock, starter, reader, current>>
    /\ UNCHANGED <<camVars, sumVars>>

\* on_detection, lines 66-75: the history is appended to and evicted, the
\* confirmation is decided, and the lock is released.
OnDetectionConfirm(thread) ==
    /\ calls[thread].pc = "confirm"
    /\ LET call  == calls[thread]
           state == trials[call.trial_id].per_decoder[call.decoder]
       IN  trials' = WithField(trials, call.trial_id, call.decoder,
                        Detect(state, call.decoder, call.ts_ns, call.payload))
    /\ lock' = Unlocked
    /\ calls' = [calls EXCEPT ![thread].pc = "log"]
    /\ UNCHANGED <<confirmations_required, active, events, starter, reader, current>>
    /\ UNCHANGED <<camVars, sumVars>>

\* on_detection, lines 77-84: PAYLOAD_DETECTED is logged after the lock is
\* released, with the trial id read under the lock.
OnDetectionLog(thread) ==
    /\ calls[thread].pc = "log"
    /\ LET call == calls[thread]
       IN  events' = Log(events, EventRow(call.ts_ns, call.trial_id, call.decoder,
                                          "PAYLOAD_DETECTED", call.payload))
    /\ calls' = [calls EXCEPT ![thread] = NoCall]
    /\ UNCHANGED <<confirmations_required, trials, active, lock, starter, reader, current>>
    /\ UNCHANGED <<camVars, sumVars>>

\* trials_summary_rows, line 88: sorted(self._trials.items()) lists the
\* trials of the map as it is now; no lock is taken.  With no trials the
\* call returns the empty list.
ReadItems ==
    /\ reader.pc = "idle"
    /\ LET items == SortedIds(DOMAIN trials)
       IN  IF items = <<>>
           THEN /\ rows' = <<>>
                /\ UNCHANGED reader
           ELSE /\ reader' = [NoRead EXCEPT !.pc = "first", !.items = items,
                                            !.trial = 1, !.decoder = 1]
                /\ UNCHANGED rows
    /\ UNCHANGED <<vars, camVars, lock, calls, starter, current>>
    /\ UNCHANGED <<summary, live_text, samples, stats>>

\* The state the reader holds: the decoder's state of the record, or the
\* fresh TrialDecoderState() that per_decoder.get returned.
HeldState(read) ==
    IF read.held = "live"
    THEN trials[read.items[read.trial]].per_decoder[DECODERS[read.decoder]]
    ELSE NewDecoderState

\* trials_summary_rows, lines 90-91: the state is fetched and first_ms is
\* computed from its first_detect_ns.
ReadFirst ==
    /\ reader.pc = "first"
    /\ LET trial == trials[reader.items[reader.trial]]
           held  == IF DECODERS[reader.decoder] \in DOMAIN trial.per_decoder
                    THEN "live" ELSE "default"
           state == StateOf(trial, DECODERS[reader.decoder])
       IN  reader' = [reader EXCEPT !.pc = "confirm", !.held = held,
                         !.first_ms = LatencyMs(state.first_detect_ns, trial.t0_ns)]
    /\ UNCHANGED <<vars, camVars, sumVars, lock, calls, starter, current>>

\* trials_summary_rows, line 92: confirm_ms is computed from the state's
\* confirm_detect_ns.
ReadConfirm ==
    /\ reader.pc = "confirm"
    /\ LET trial == trials[reader.items[reader.trial]]
       IN  reader' = [reader EXCEPT !.pc = "success",
                         !.confirm_ms = LatencyMs(HeldState(reader).confirm_detect_ns,
                                                  trial.t0_ns)]
    /\ UNCHANGED <<vars, camVars, sumVars, lock, calls, starter, current>>

\* trials_summary_rows, lines 93-101: the row is appended with
\* success = bool(state.first_detect_ns), read now; the loops go on to the
\* next decoder or the next trial, and after the last the list is returned.
\* A list with rows is read once.
ReadSuccess ==
    /\ reader.pc = "success"
    /\ LET row  == [trial_id |-> reader.items[reader.trial],
                    decoder |-> DECODERS[reader.decoder],
                    success |-> Truthy(HeldState(reader).first_detect_ns),
                    first_detect_latency_ms |-> reader.first_ms,
                    confirm_detect_latency_ms |-> reader.confirm_ms]
           out  == Append(reader.out, row)
           next == [reader EXCEPT !.pc = "first", !.held = "none", !.first_ms = None,
                                  !.confirm_ms = None, !.out = out]
       IN  IF reader.decoder < Len(DECODERS)
           THEN /\ reader' = [next EXCEPT !.decoder = reader.decoder + 1]
                /\ UNCHANGED rows
           ELSE IF reader.trial < Len(reader.items)
                THEN /\ reader' = [next EXCEPT !.trial = reader.trial + 1, !.decoder = 1]
                     /\ UNCHANGED rows
                ELSE /\ reader' = [NoRead EXCEPT !.pc = "returned"]
                     /\ rows' = out
    /\ UNCHANGED <<vars, camVars, lock, calls, starter, current>>
    /\ UNCHANGED <<summary, live_text, samples, stats>>

ThreadInit ==
    /\ confirmations_required = 2
    /\ ControllerInit
    /\ throttle_n_frames = 1
    /\ parallel_decode = TRUE
    /\ NoCamera
    /\ NoReport
    /\ NoThreads

ThreadNext ==
    \/ \E trial_id \in ThreadTrialIds, t0_ns \in T0s : StartTrialLocked(trial_id, t0_ns)
    \/ StartTrialLog
    \/ CurrentTrialId
    \/ \E thread \in DetectionThreads :
          \E decoder \in DecodersOf(thread), ts_ns \in ThreadClock, payload \in ThreadPayloads :
              OnDetectionEnter(thread, decoder, ts_ns, payload)
    \/ \E thread \in DetectionThreads : OnDetectionLatch(thread)
    \/ \E thread \in DetectionThreads : OnDetectionConfirm(thread)
    \/ \E thread \in DetectionThreads : OnDetectionLog(thread)
    \/ ReadItems
    \/ ReadFirst
    \/ ReadConfirm
    \/ ReadSuccess

SpecThreads == ThreadInit /\ [][ThreadNext]_allVars

\* ------------------------------------------------------------------ claims

\* The (trial, decoder) pairs that have a per-decoder state.
Pairs == {<<i, d>> \in (DOMAIN trials) \X DecoderIds : d \in DOMAIN trials[i].per_decoder}

\* The step appended one row of this event type to the log.
Logged(event_type) ==
    /\ Len(events') = Len(events) + 1
    /\ events'[Len(events')].event_type = event_type

\* The row the step appended.
NewRow == events'[Len(events')]

\* C1: for every (trial, decoder) whose first_detect_ns and confirm_detect_ns
\* are both set, confirm_detect_ns >= first_detect_ns.
C1_ConfirmNotBeforeFirst ==
    \A pr \in Pairs :
        LET st == trials[pr[1]].per_decoder[pr[2]]
        IN  (st.first_detect_ns # None /\ st.confirm_detect_ns # None)
                => st.confirm_detect_ns >= st.first_detect_ns

\* C2: every entry of a decoder's history lies within the confirmation window
\* of the entry appended last: ts - t <= WindowNs for the last entry's ts.
C2_HistoryWithinWindow ==
    \A pr \in Pairs :
        LET h == trials[pr[1]].per_decoder[pr[2]].history
        IN  \A k \in 1..Len(h) : h[Len(h)][2] - h[k][2] <= WindowNs

\* A detection on_detection attributes to the active trial: it appends the
\* PAYLOAD_DETECTED row of that trial and the history entry of that decoder.
Attributed(decoder, ts_ns, payload) ==
    /\ OnDetection(decoder, ts_ns, payload)
    /\ events' = Append(events, EventRow(ts_ns, active, decoder, "PAYLOAD_DETECTED", payload))
    /\ active' = active
    /\ decoder \in DOMAIN trials'[active].per_decoder
    /\ LET h == trials'[active].per_decoder[decoder].history
       IN  h # <<>> /\ h[Len(h)] = <<payload, ts_ns>>

\* C3: with a trial active and room in the log, on_detection attributes a
\* detection to the active trial exactly when t0 <= ts <= t0 + timeout, and
\* changes nothing otherwise; the bounds themselves are accepted, one tick
\* outside them is not.
C3_AcceptedIffInBounds ==
    (active # None /\ Len(events) < MaxEvents) =>
        LET t0 == trials[active].t0_ns
        IN  \A d \in DecoderIds, ts \in Timestamps, p \in Payloads :
                /\ (t0 <= ts /\ ts <= t0 + TimeoutNs) => ENABLED Attributed(d, ts, p)
                /\ ~(t0 <= ts /\ ts <= t0 + TimeoutNs) => ~ENABLED <<OnDetection(d, ts, p)>>_vars

\* C3 witness: the active trial holds a detection stamped exactly t0 and one
\* stamped exactly its timeout, and the log has room for a further call.
C3_Witness ==
    /\ active # None
    /\ Len(events) < MaxEvents
    /\ \E j, k \in 1..Len(events) :
          /\ j < k
          /\ \A n \in j..Len(events) : events[n].event_type = "PAYLOAD_DETECTED"
          /\ events[j].timestamp_ns = trials[active].t0_ns
          /\ events[k].timestamp_ns = trials[active].t0_ns + TimeoutNs

\* The decoder, timestamp and payload of the detection the step logged, the
\* decoder's state in the active trial before the step and after it.
StepDecoder == NewRow.decoder
StepTs == NewRow.timestamp_ns
StepPayload == NewRow.payload_string
StepBefore == StateOf(trials[active], StepDecoder)
StepAfter == trials'[active].per_decoder[StepDecoder]

\* Rows j < k of the log are accepted detections of one decoder in one trial
\* run: no TRIAL_START lies between them.
SameRun(j, k) ==
    /\ j < k
    /\ events[j].event_type = "PAYLOAD_DETECTED"
    /\ events[k].event_type = "PAYLOAD_DETECTED"
    /\ events[j].decoder = events[k].decoder
    /\ \A n \in j..k : events[n].event_type # "TRIAL_START"

\* C4: an accepted on_detection sets first_detect_ns to its timestamp when the
\* pair has none, and no on_detection changes a first_detect_ns that is set.
C4_FirstDetectLatched ==
    [][Logged("PAYLOAD_DETECTED") =>
        /\ \A pr \in Pairs :
              trials[pr[1]].per_decoder[pr[2]].first_detect_ns # None =>
                 trials'[pr[1]].per_decoder[pr[2]].first_detect_ns
                    = trials[pr[1]].per_decoder[pr[2]].first_detect_ns
        /\ StepBefore.first_detect_ns = None => StepAfter.first_detect_ns = StepTs
      ]_vars

\* C4 witness: a decoder of the active trial was detected twice with different
\* timestamps and holds the timestamp of the earlier delivery.
C4_Witness ==
    /\ active # None
    /\ \E j, k \in 1..Len(events) :
          /\ SameRun(j, k)
          /\ k = Len(events)
          /\ events[j].timestamp_ns # events[k].timestamp_ns
          /\ events[j].decoder \in DOMAIN trials[active].per_decoder
          /\ trials[active].per_decoder[events[j].decoder].first_detect_ns
                = events[j].timestamp_ns

\* C5: no on_detection changes a confirm_detect_ns that is set, whatever the
\* decoder and whatever the matching-payload count of the later detection.
C5_ConfirmLatched ==
    [][Logged("PAYLOAD_DETECTED") =>
        \A pr \in Pairs :
            trials[pr[1]].per_decoder[pr[2]].confirm_detect_ns # None =>
               trials'[pr[1]].per_decoder[pr[2]].confirm_detect_ns
                  = trials[pr[1]].per_decoder[pr[2]].confirm_detect_ns
      ]_vars

\* C5 witness: the last detection reached the required matching count at a
\* timestamp other than the confirmation its decoder already held.
C5_Witness ==
    /\ active # None
    /\ events # <<>>
    /\ LET row == events[Len(events)]
       IN  /\ row.event_type = "PAYLOAD_DETECTED"
           /\ row.decoder \in DOMAIN trials[active].per_decoder
           /\ LET st == trials[active].per_decoder[row.decoder]
              IN  /\ st.confirm_detect_ns # None
                  /\ st.confirm_detect_ns # row.timestamp_ns
                  /\ MatchCount(st.history, row.payload_string) >= confirmations_required

\* The history entries with this payload that are not older than the
\* confirmation window relative to ts_ns.
InWindowCount(history, payload, ts_ns) ==
    Cardinality({k \in 1..Len(history) :
        history[k][1] = payload /\ ts_ns - history[k][2] <= WindowNs})

\* C6: for VISION and ZXING, an accepted detection of a pair without a
\* confirmation sets confirm_detect_ns to its own timestamp when at least
\* confirmations_required history entries with its payload lie inside the
\* confirmation window, and leaves it unset otherwise.
C6_ThresholdConfirmation ==
    [][(Logged("PAYLOAD_DETECTED")
            /\ StepDecoder \in {"VISION", "ZXING"}
            /\ StepBefore.confirm_detect_ns = None) =>
        StepAfter.confirm_detect_ns =
            IF InWindowCount(StepAfter.history, StepPayload, StepTs) >= confirmations_required
            THEN StepTs
            ELSE None
      ]_vars

\* C7: with confirmations_required > 1, an AVFOUNDATION detection whose
\* matching count is below confirmations_required sets the missing
\* confirmation to first_detect_ns, so a detected AVFOUNDATION pair never
\* stays unconfirmed; a VISION or ZXING detection below the count leaves the
\* confirmation unset.
C7_SingleShotFallbackPassiveOnly ==
    [][(Logged("PAYLOAD_DETECTED") /\ confirmations_required > 1) =>
        LET below == MatchCount(StepAfter.history, StepPayload) < confirmations_required
            unset == StepBefore.confirm_detect_ns = None
        IN  /\ StepDecoder = "AVFOUNDATION" => StepAfter.confirm_detect_ns # None
            /\ (StepDecoder = "AVFOUNDATION" /\ unset /\ below) =>
                  StepAfter.confirm_detect_ns = StepAfter.first_detect_ns
            /\ (StepDecoder # "AVFOUNDATION" /\ unset /\ below) =>
                  StepAfter.confirm_detect_ns = None
      ]_vars

\* C7 witness: with confirmations_required = 2, AVFOUNDATION and a
\* frame-derived decoder each reported one payload once; AVFOUNDATION is
\* confirmed at its first detection, the other decoder is not confirmed.
C7_Witness ==
    /\ active # None
    /\ confirmations_required > 1
    /\ "AVFOUNDATION" \in DOMAIN trials[active].per_decoder
    /\ LET st == trials[active].per_decoder["AVFOUNDATION"]
       IN  /\ Len(st.history) = 1
           /\ st.confirm_detect_ns = st.first_detect_ns
           /\ st.first_detect_ns # None
    /\ \E d \in {"VISION", "ZXING"} :
          /\ d \in DOMAIN trials[active].per_decoder
          /\ trials[active].per_decoder[d].first_detect_ns # None
          /\ trials[active].per_decoder[d].confirm_detect_ns = None

\* The timestamp lies in [t0, t0 + timeout] of the active trial.
InActiveWindow(ts_ns) ==
    /\ active # None
    /\ trials[active].t0_ns <= ts_ns
    /\ ts_ns <= trials[active].t0_ns + TimeoutNs

\* C8: an on_detection call made with no trial active, or with a timestamp
\* outside [t0, timeout] of the active trial, changes nothing: not the trial
\* map, not the active trial id, not the log.
C8_IgnoredDetectionIsNoOp ==
    \A d \in DecoderIds, ts \in Timestamps, p \in Payloads :
        ~InActiveWindow(ts) => ~ENABLED <<OnDetection(d, ts, p)>>_vars

\* C8 witness: a trial is active, it holds decoder state a stray detection
\* could touch, and the log has room for the row it could append.
C8_Witness ==
    /\ active # None
    /\ trials[active].per_decoder # <<>>
    /\ Len(events) < MaxEvents
    /\ \E ts \in Timestamps : ts < trials[active].t0_ns
    /\ \E ts \in Timestamps : ts > trials[active].timeout_ns

\* The trial id of the last TRIAL_START row of the log, None without one.
LastStarted ==
    LET starts == {n \in 1..Len(events) : events[n].event_type = "TRIAL_START"}
    IN  IF starts = {} THEN None
        ELSE events[CHOOSE m \in starts : \A n \in starts : n <= m].trial_id

\* C9: the active trial is the one start_trial was last called for; an
\* accepted on_detection is logged for it and changes the record of no other
\* trial; no step removes a trial id from the trial map.
C9_OnlyLastStartedTrialReceives ==
    [][/\ (DOMAIN trials) \subseteq (DOMAIN trials')
       /\ active' = LastStarted'
       /\ Logged("PAYLOAD_DETECTED") =>
             /\ NewRow.trial_id = active
             /\ \A i \in (DOMAIN trials) \ {active} : trials'[i] = trials[i]
      ]_vars

\* C9 witness: an earlier trial holds decoder state, another trial was
\* started after it, and the last detection went to that later trial.
C9_Witness ==
    /\ active # None
    /\ events # <<>>
    /\ events[Len(events)].event_type = "PAYLOAD_DETECTED"
    /\ events[Len(events)].trial_id = active
    /\ \E i \in (DOMAIN trials) \ {active} : trials[i].per_decoder # <<>>

\* C10: end_trial appends one TRIAL_END row and leaves the trial map and the
\* active trial id as they are, also when the trial was ended before; right
\* after it an in-window detection is still attributed to the active trial.
C10_EndTrialOnlyLogs ==
    /\ [][Logged("TRIAL_END") =>
            /\ trials' = trials
            /\ active' = active
            /\ events' = Append(events, NewRow)
            /\ NewRow.decoder = "SYSTEM"
         ]_vars
    /\ [](( /\ active # None
            /\ events # <<>>
            /\ Len(events) < MaxEvents
            /\ events[Len(events)].event_type = "TRIAL_END"
            /\ events[Len(events)].trial_id = active ) =>
               \A d \in DecoderIds, ts \in Timestamps, p \in Payloads :
                   InActiveWindow(ts) => ENABLED Attributed(d, ts, p))

\* C10 witness: the active trial was ended, then received a detection, then
\* was ended a second time.
C10_Witness ==
    /\ active # None
    /\ \E j, k, l \in 1..Len(events) :
          /\ j < k /\ k < l
          /\ events[j].event_type = "TRIAL_END" /\ events[j].trial_id = active
          /\ events[k].event_type = "PAYLOAD_DETECTED" /\ events[k].trial_id = active
          /\ events[l].event_type = "TRIAL_END" /\ events[l].trial_id = active
          /\ \A n \in j..l : events[n].event_type # "TRIAL_START"
          /\ trials[active].per_decoder # <<>>

\* The index of the last TRIAL_START row of the log, 0 without one.
RunStart ==
    LET starts == {n \in 1..Len(events) : events[n].event_type = "TRIAL_START"}
    IN  IF starts = {} THEN 0
        ELSE CHOOSE m \in starts : \A n \in starts : n <= m

\* The accepted detections of one decoder since the active trial started, in
\* the order they were accepted.
OwnDetections(decoder) ==
    SelectSeq(SubSeq(events, RunStart + 1, Len(events)),
              LAMBDA r : r.event_type = "PAYLOAD_DETECTED" /\ r.decoder = decoder)

\* The state a decoder reaches from a fresh one under a sequence of accepted
\* detections alone.
RECURSIVE Replay(_, _, _)
Replay(state, decoder, detections) ==
    IF detections = <<>>
    THEN state
    ELSE Replay(Detect(state, decoder, Head(detections).timestamp_ns,
                       Head(detections).payload_string),
                decoder, Tail(detections))

\* C11: however the callbacks of the three decoders interleave within a
\* trial, the first-detection and confirmation timestamps recorded for a
\* decoder are the ones its own accepted detections produce alone, in their
\* order of arrival; the callbacks of the other decoders change neither.
C11_DecodersIndependent ==
    active # None =>
        \A d \in DecoderIds :
            LET state == StateOf(trials[active], d)
                alone == Replay(NewDecoderState, d, OwnDetections(d))
            IN  /\ state.first_detect_ns = alone.first_detect_ns
                /\ state.confirm_detect_ns = alone.confirm_detect_ns

\* C11 witness: a detection of one decoder arrived between two detections of
\* another decoder, and the latter confirmed.
C11_Witness ==
    /\ active # None
    /\ \E j, k, l \in (RunStart + 1)..Len(events) :
          /\ j < k /\ k < l
          /\ events[j].event_type = "PAYLOAD_DETECTED"
          /\ events[k].event_type = "PAYLOAD_DETECTED"
          /\ events[l].event_type = "PAYLOAD_DETECTED"
          /\ events[j].decoder = events[l].decoder
          /\ events[k].decoder # events[j].decoder
          /\ StateOf(trials[active], events[j].decoder).confirm_detect_ns # None
          /\ StateOf(trials[active], events[k].decoder).confirm_detect_ns = None

\* ---------------------------------------------------------- pipeline claims
\* The rows of the log of one event type.
RowsOf(event_type) == {n \in 1..Len(events) : events[n].event_type = event_type}

\* decode_cgimage of this decoder for this frame has not come back yet.
InFlight(frame_idx, decoder) ==
    \E task \in running :
        /\ task.frame_idx = frame_idx
        /\ Head(task.decoders) = decoder
        /\ task.pc = "decoding"

\* run_decode of this decoder for this frame is still to come: its work item
\* is submitted, or the serial lambda is about to enter it.
ToCome(frame_idx, decoder) ==
    \/ \E n \in 1..Len(pending) :
          /\ pending[n].frame_idx = frame_idx
          /\ \E m \in 1..Len(pending[n].decoders) : pending[n].decoders[m] = decoder
    \/ \E task \in running :
          /\ task.frame_idx = frame_idx
          /\ \E m \in 2..Len(task.decoders) : task.decoders[m] = decoder
    \/ \E task \in running :
          /\ task.frame_idx = frame_idx
          /\ Head(task.decoders) = decoder
          /\ task.pc = "begin"

\* C12: a decode that raises is contained in its task: every decode that was
\* started and is over has logged DECODE_END for its frame and decoder (with
\* an empty payload when it raised), and the other decoder of the frame still
\* runs -- once the VISION decode of a frame is over, the ZXING decode of the
\* frame has started or is still to come (or was cancelled by stop), in
\* serial and in parallel mode.
C12_DecodeFailureContained ==
    \A k \in RowsOf("DECODE_START") :
        LET f == events[k].frame_index
            d == events[k].decoder
        IN  ~InFlight(f, d) =>
               /\ \E j \in RowsOf("DECODE_END") :
                     /\ j > k
                     /\ events[j].frame_index = f
                     /\ events[j].decoder = d
               /\ d = "VISION" =>
                     \/ \E j \in RowsOf("DECODE_START") :
                           events[j].frame_index = f /\ events[j].decoder = "ZXING"
                     \/ ToCome(f, "ZXING")
                     \/ executor_shutdown

\* C13: the decode work submitted and not yet started is bounded: the pending
\* work items never exceed the size of the decode queue, a sampled frame that
\* arrives while the decode work is saturated being skipped.
C13_PendingBounded ==
    Len(pending) <= DecodeQueueMaxSize

\* C14: stop cancels the work items that were not started, and what a running
\* work item does after stop changes no trial's state: its callback is
\* dropped.
C14_StopDropsLateCallbacks ==
    [][ /\ executor_shutdown' => pending' = <<>>
        /\ (executor_shutdown /\ running' # running) => trials' = trials
      ]_allVars

FrameRows == SelectSeq(events, LAMBDA r : r.event_type = "FRAME_RECEIVED")

\* C16: the frames delivered are numbered 1, 2, 3, ... in the order of
\* delivery, sampled or not, and each logs exactly one FRAME_RECEIVED row with
\* its number.
C16_FrameSequence ==
    /\ Len(FrameRows) = frame_index
    /\ metrics.frames_received = frame_index
    /\ \A k \in 1..Len(FrameRows) : FrameRows[k].frame_index = k

\* C16 witness: three frames were delivered under a throttle of 2.
C16_Witness ==
    /\ throttle_n_frames = 2
    /\ Len(FrameRows) = 3

\* C17: the frame numbered s is submitted for decoding exactly when
\* s mod N = 0, N being the throttle; a submitted frame adds one set of work
\* to the executor -- a VISION and a ZXING work item when parallel, one work
\* item running both when serial -- and nothing else submits work.
C17_ThrottleSampling ==
    [][ /\ frame_index' # frame_index =>
              LET s == frame_index'
              IN  IF s % throttle_n_frames = 0
                  THEN IF parallel_decode
                       THEN pending' = pending \o <<[frame_idx |-> s, decoders |-> <<"VISION">>],
                                                    [frame_idx |-> s, decoders |-> <<"ZXING">>]>>
                       ELSE pending' = Append(pending, [frame_idx |-> s,
                                                        decoders |-> <<"VISION", "ZXING">>])
                  ELSE pending' = pending
        /\ Len(pending') > Len(pending) => frame_index' # frame_index
      ]_allVars

\* C17 witness: under a throttle of 2, frame 1 was not submitted and the
\* serial work item of frame 2 has started.
C17_Witness ==
    /\ throttle_n_frames = 2
    /\ ~parallel_decode
    /\ \E k \in RowsOf("DECODE_START") : events[k].frame_index = 2
    /\ \A k \in RowsOf("DECODE_START") : events[k].frame_index # 1

\* --------------------------------------------------------- statistics claims
\* The trials a decoder has a first detection recorded in.
DetectedIn(decoder) ==
    {t \in DOMAIN trials : StateOf(trials[t], decoder).first_detect_ns # None}

\* The first-detect latency recorded for a decoder in a trial, in ms.
FirstLatency(trial_id, decoder) ==
    (StateOf(trials[trial_id], decoder).first_detect_ns - trials[trial_id].t0_ns) * MsPerTick

\* C18: trials_summary_rows returns exactly one row for each recorded trial
\* and each decoder of DECODERS, in ascending order of trial id; the row's
\* success is true exactly when a first detection is recorded for the pair,
\* and its first_detect_latency_ms is (first_detect_ns - t0_ns) / 1e6 when one
\* is recorded and null when none is, whatever the timestamps >= 0, a
\* detection at t0 included.
C18_SummaryRows ==
    [][ rows' # rows =>
          /\ Len(rows') = Cardinality(DOMAIN trials) * Len(DECODERS)
          /\ \A m, n \in 1..Len(rows') : m < n => rows'[m].trial_id <= rows'[n].trial_id
          /\ \A t \in DOMAIN trials, d \in DecoderIds :
                /\ Cardinality({n \in 1..Len(rows') :
                                   rows'[n].trial_id = t /\ rows'[n].decoder = d}) = 1
                /\ \A n \in 1..Len(rows') :
                      (rows'[n].trial_id = t /\ rows'[n].decoder = d) =>
                         /\ rows'[n].success = (t \in DetectedIn(d))
                         /\ rows'[n].first_detect_latency_ms =
                               IF t \in DetectedIn(d) THEN FirstLatency(t, d) ELSE None
      ]_allVars

\* C19: for a decoder with an accepted first detection in k of the n recorded
\* trials, aggregate reports success_rate = k / n, and 0 when n = 0.
C19_SuccessRate ==
    [][ summary' # summary =>
          \A d \in DecoderIds :
              LET n == Cardinality(DOMAIN trials)
                  k == Cardinality(DetectedIn(d))
              IN  IF n = 0
                  THEN d \in DOMAIN summary' => summary'[d].success_rate.num = 0
                  ELSE /\ d \in DOMAIN summary'
                       /\ summary'[d].success_rate.num * n = k * summary'[d].success_rate.den
      ]_allVars

\* C20: in aggregate, a decoder contributes one delta for each trial it has a
\* first detection in, in trial order: its first-detect latency minus the
\* least first-detect latency of the trial over all decoders; no delta is
\* negative, the fastest decoder of a trial contributes 0, and a decoder
\* contributes nothing for a trial it did not detect in.
C20_DeltaVsFastest ==
    [][ summary' # summary =>
          \A d \in DOMAIN summary' :
              LET ids == SortedIds(DetectedIn(d))
                  least(t) == CHOOSE v \in {FirstLatency(t, e) : e \in {x \in DecoderIds : t \in DetectedIn(x)}} :
                                 \A e \in DecoderIds : t \in DetectedIn(e) => v <= FirstLatency(t, e)
              IN  /\ summary'[d].deltas = [i \in 1..Len(ids) |-> FirstLatency(ids[i], d) - least(ids[i])]
                  /\ \A i \in 1..Len(summary'[d].deltas) : summary'[d].deltas[i] >= 0
      ]_allVars

\* The record of no data: count 0 and every other field null.
NoData ==
    [count |-> 0, mean_ms |-> None, std_ms |-> None, median_ms |-> None,
     p95_ms |-> None, min_ms |-> None, max_ms |-> None,
     coefficient_of_variation |-> None]

\* The step is a run of aggregate whose result the app stores and shows.
AggregateStep ==
    /\ live_text' = "summary"
    /\ summary' # summary \/ live_text' # live_text

\* What aggregate reports for a decoder without a detection in any trial, and
\* for a decoder with exactly one latency.
NoDataReported(report, d) ==
    /\ DetectedIn(d) = {} =>
          /\ report[d].success_rate.num = 0
          /\ report[d].success_rate.den # 0
          /\ report[d].first_detect = NoData
          /\ report[d].confirm_detect = NoData
          /\ report[d].delta_vs_fastest = [mean_delta_ms |-> None, median_delta_ms |-> None]
    /\ report[d].first_detect.count = 1 =>
          report[d].first_detect.std_ms = [sqrt_of |-> Ratio(0, 1)]

\* C21 as stated: aggregate returns, for every decoder without a detection
\* in any trial -- also when no trial was recorded at all -- the records of
\* no data (count 0, every other field null) and success_rate 0; with
\* exactly one value the standard deviation is 0.
C21_NoDataRecords ==
    [][ AggregateStep =>
          \A d \in DecoderIds : d \in DOMAIN summary' /\ NoDataReported(summary', d)
      ]_allVars

\* C21 amended: with at least one trial recorded aggregate returns, for every
\* decoder without a detection in any trial, the records of no data and
\* success_rate 0, and with exactly one value the standard deviation is 0;
\* with no trial recorded it returns the empty dict, with no record for any
\* decoder.
C21_NoDataRecordsOfRecordedTrials ==
    [][ AggregateStep =>
          IF DOMAIN trials = {}
          THEN DOMAIN summary' = {}
          ELSE \A d \in DecoderIds : d \in DOMAIN summary' /\ NoDataReported(summary', d)
      ]_allVars

\* C21 witness: aggregate ran over recorded trials in which one decoder has
\* no detection and another has exactly one latency.
C21_Witness ==
    /\ live_text = "summary"
    /\ summary = Aggregate(TrialsSummaryRows(trials))
    /\ \E d, e \in DOMAIN summary :
          /\ DetectedIn(d) = {}
          /\ summary[d].first_detect.count = 0
          /\ summary[e].first_detect.count = 1

\* The k-th smallest of a list of values, k from 1.
OrderStatistic(values, k) ==
    CHOOSE v \in {values[i] : i \in 1..Len(values)} :
        /\ Cardinality({i \in 1..Len(values) : values[i] < v}) < k
        /\ k <= Cardinality({i \in 1..Len(values) : values[i] <= v})

\* C22: the 95th percentile of a non-empty list is the linear interpolation
\* between the two order statistics that bound rank (count - 1) * 0.95,
\* whatever the order of the list; it is 38.5 for 10, 20, 30, 40 in any
\* order, and the value itself for a single value.
C22_Percentile95 ==
    (stats # NoStats /\ samples # <<>>) =>
        LET n == Len(samples)
            below == ((n - 1) * 19) \div 20
            part == ((n - 1) * 19) % 20
            lower == OrderStatistic(samples, below + 1)
            upper == IF part = 0 THEN lower ELSE OrderStatistic(samples, below + 2)
            p95 == stats.p95_ms
        IN  /\ p95.den # 0
            /\ p95.num * 20 = (20 * lower + (upper - lower) * part) * p95.den
            /\ n = 1 => p95.num = samples[1] * p95.den
            /\ (n = 4 /\ {samples[i] : i \in 1..n} = {10, 20, 30, 40}) =>
                  2 * p95.num = 77 * p95.den

\* C22 witness: the statistics of 40, 10, 30, 20 were computed.
C22_Witness ==
    /\ samples = <<40, 10, 30, 20>>
    /\ stats # NoStats
    /\ stats.count = 4

\* C30: whatever confirmations_required >= 1 and whatever detections are
\* accepted, AVFOUNDATION is confirmed by its first accepted detection of a
\* trial: from then on confirm_detect_ns equals first_detect_ns, also when
\* its matching count reaches confirmations_required later.
C30_PassiveConfirmsAtFirst ==
    \A t \in DOMAIN trials :
        "AVFOUNDATION" \in DOMAIN trials[t].per_decoder =>
            LET state == trials[t].per_decoder["AVFOUNDATION"]
            IN  /\ state.first_detect_ns # None
                /\ state.confirm_detect_ns = state.first_detect_ns

\* C30 witness: with confirmations_required = 2, AVFOUNDATION was confirmed
\* by its first detection and its matching count reached 2 with a later one.
C30_Witness ==
    /\ confirmations_required = 2
    /\ active # None
    /\ "AVFOUNDATION" \in DOMAIN trials[active].per_decoder
    /\ LET state == trials[active].per_decoder["AVFOUNDATION"]
       IN  /\ Len(state.history) = 2
           /\ state.history[1][1] = state.history[2][1]
           /\ state.history[2][2] > state.first_detect_ns
           /\ state.confirm_detect_ns = state.first_detect_ns

\* C24: in serial mode a work item runs VISION and then ZXING, and the work
\* items of two different frames never run at the same time.
C24_SerialUnitsDoNotOverlap ==
    ~parallel_decode =>
        /\ \A task \in running : task.decoders \in {<<"VISION", "ZXING">>, <<"ZXING">>}
        /\ \A task, other \in running : task.frame_idx = other.frame_idx

\* A row of the log for one frame and one decoder.
DecodeRow(n, event_type, frame_idx, decoder) ==
    /\ events[n].event_type = event_type
    /\ events[n].frame_index = frame_idx
    /\ events[n].decoder = decoder

\* C25: DECODE_START is logged before DECODE_END for the same frame and
\* decoder; the detection callback is made exactly when the decode returned
\* a payload, after DECODE_END was logged, with the decoder and the frame of
\* the task and the timestamp of its DECODE_END row, and is the call of
\* on_detection with these; a decode without a payload never reaches the
\* controller.
C25_CallbackAfterDecodeEnd ==
    /\ [](/\ \A k \in RowsOf("DECODE_END") :
                \E j \in 1..(k - 1) :
                    DecodeRow(j, "DECODE_START", events[k].frame_index, events[k].decoder)
          /\ \A task \in running :
                task.pc = "callback" =>
                    /\ task.payload # NoPayload
                    /\ \E k \in 1..Len(events) :
                          /\ DecodeRow(k, "DECODE_END", task.frame_idx, Head(task.decoders))
                          /\ events[k].timestamp_ns = task.end_ns
                          /\ events[k].payload_string = task.payload
          /\ \A k \in RowsOf("PAYLOAD_DETECTED") :
                /\ events[k].payload_string # NoPayload
                /\ \E j \in 1..(k - 1) :
                      /\ events[j].event_type = "DECODE_END"
                      /\ events[j].decoder = events[k].decoder
                      /\ events[j].timestamp_ns = events[k].timestamp_ns
                      /\ events[j].payload_string = events[k].payload_string)
    /\ [][\A task \in running :
            /\ (task.pc = "count" /\ task \notin running') =>
                  (task.payload # NoPayload <=> [task EXCEPT !.pc = "callback"] \in running')
            /\ (task.pc = "callback" /\ task \notin running') =>
                  IF Ignored(task.end_ns)
                  THEN UNCHANGED vars
                  ELSE /\ events' = Append(events, NewRow)
                       /\ NewRow = EventRow(task.end_ns, active, Head(task.decoders),
                                            "PAYLOAD_DETECTED", task.payload)
                       /\ trials' # trials
         ]_allVars

\* C25 witness: a decode that ended at tick 2 with a payload has logged
\* DECODE_END, stored its count, handed the payload to the controller, which
\* logged the detection, and returned.
C25_Witness ==
    /\ \E k \in RowsOf("PAYLOAD_DETECTED") :
          /\ events[k].timestamp_ns = 2
          /\ events[k - 1].event_type = "DECODE_END"
    /\ metrics.frames_processed = 1
    /\ running = {}

\* C26: a drop signal adds exactly one to the dropped-frame count of the
\* pipeline's metrics, and assigns no frame number, logs no row and submits
\* no work; after d drop signals the count of the metrics is d.
C26_DropsCountedInMetrics ==
    [][ dropped_frames' # dropped_frames =>
          /\ metrics'.dropped_frames = metrics.dropped_frames + 1
          /\ frame_index' = frame_index
          /\ events' = events
          /\ pending' = pending
      ]_allVars

\* C29: once every submitted work item has finished, metrics.frames_processed
\* is the number of DECODE_END rows, however the workers interleave.
C29_ProcessedCountsDecodeEnds ==
    (pending = <<>> /\ running = {}) =>
        metrics.frames_processed = Cardinality(RowsOf("DECODE_END"))


\* --------------------------------------------------------- thread claims

\* The detection threads that hold the lock inside on_detection.
InLock == {thread \in DetectionThreads : calls[thread].pc \in {"latch", "confirm"}}

\* The map an accepted on_detection call leaves when it runs alone on the
\* map it found on entry.
Sequential(call) ==
    WithField(call.entry, call.trial_id, call.decoder,
              Detect(StateOf(call.entry[call.trial_id], call.decoder),
                     call.decoder, call.ts_ns, call.payload))

\* C23: start_trial, on_detection and current_trial_id exclude each other:
\* at most one thread is inside the lock and it is the holder; while a
\* detection is inside, the active trial is the one whose bounds it was
\* checked against and nothing but that trial's state of its decoder differs
\* from the map it found; when it leaves, the map is the one its bounds
\* check, first latch, history append, eviction and confirmation make of the
\* map it found, in one step; start_trial and current_trial_id act only
\* while no thread holds the lock.
C23_LockedStepsAtomic ==
    /\ [](/\ Cardinality(InLock) <= 1
          /\ \A thread \in DetectionThreads : thread \in InLock <=> lock = thread
          /\ \A thread \in InLock :
                LET call == calls[thread]
                IN  /\ active = call.trial_id
                    /\ call.trial_id \in DOMAIN call.entry
                    /\ InTrialBounds(call.entry[call.trial_id], call.ts_ns)
                    /\ WithField(trials, call.trial_id, call.decoder, NewDecoderState)
                         = WithField(call.entry, call.trial_id, call.decoder, NewDecoderState))
    /\ [][/\ \A thread \in DetectionThreads :
                (calls[thread].pc = "confirm" /\ calls'[thread].pc = "log") =>
                    /\ trials' = Sequential(calls[thread])
                    /\ lock' = Unlocked
          /\ (starter.pc = "idle" /\ starter'.pc = "log") =>
                /\ lock = Unlocked
                /\ InLock = {}
                /\ active' = starter'.trial_id
                /\ trials' = PutTrial(trials, starter'.trial_id,
                                NewTrialRecord(starter'.trial_id, starter'.t0_ns,
                                               starter'.t0_ns + TimeoutNs))
          /\ current' # current => (lock = Unlocked /\ InLock = {} /\ current' = active)
         ]_allVars

\* C23 witness: the passive detector's thread is inside the lock, after its
\* first latch, on the trial on which the pool worker has recorded a
\* detection that it has not logged yet, and whose start_trial has released
\* the lock and not logged yet.
C23_Witness ==
    /\ calls["metadata"].pc = "confirm"
    /\ calls["worker"].pc = "log"
    /\ starter.pc = "log"
    /\ calls["metadata"].trial_id = starter.trial_id
    /\ calls["worker"].trial_id = starter.trial_id
    /\ lock = "metadata"

\* C27: every row that trials_summary_rows emits while on_detection and
\* start_trial run is consistent with one state of the engine: success is
\* true exactly when the row has a first-detect latency, and no row has a
\* confirm latency with success false and no first-detect latency.
C27_RowsOfOneState ==
    \A row \in {reader.out[n] : n \in 1..Len(reader.out)} \cup {rows[n] : n \in 1..Len(rows)} :
        /\ row.success <=> row.first_detect_latency_ms # None
        /\ ~(/\ row.confirm_detect_latency_ms # None
             /\ ~row.success
             /\ row.first_detect_latency_ms = None)

\* C28: every PAYLOAD_DETECTED row of trial k has the TRIAL_START row of
\* trial k before it in the log.
C28_DetectedAfterTrialStart ==
    \A k \in RowsOf("PAYLOAD_DETECTED") :
        \E j \in 1..(k - 1) :
            /\ events[j].event_type = "TRIAL_START"
            /\ events[j].trial_id = events[k].trial_id

====
